---- MODULE Spec2Model ----
(***************************************************************************)
(* NotionDatabaseLinker (tools/notion_database_linker.py) together with    *)
(* the part of the remote service and of the endpoint layer it talks to.   *)
(*                                                                         *)
(* One action per public operation of the linker: attach, detach, empty,   *)
(* insert.  Each action is the whole call: every remote call and every     *)
(* hook the call makes is recorded, in order, in `trace`, and the call's   *)
(* outcome (return value or the exception that left it) in `last`.         *)
(*                                                                         *)
(* The remote service is the two collections the linker reads and writes:  *)
(* `databases` and `pages`; an identity is the index in the sequence.      *)
(* The title search is taken to answer with all its matches in one result  *)
(* page (the linker reads only the first).                                 *)
(***************************************************************************)
EXTENDS Integers, Sequences, FiniteSets, TLC

\* ------------------------------------------------------------- bounds
MaxInitDbs == 2       \* databases the remote holds before the linker exists
MaxDbs == 3           \* databases the remote ever holds
MaxRecords == 5       \* rows the remote holds before the linker exists (SpecEmpty)
MaxTrashed == 1       \* of them, those already in the trash (SpecEmpty)
MaxPages == 1         \* rows up to which insert is still explored
MaxPageSize == 2      \* the service's page size for databases.query
MaxFailAt == 2        \* the remote call of an operation that may be made to fail

\* ------------------------------------------------------------- values
None == 0             \* Python's None for an identity (attached_database, return value)

AttachTitles == {<<1>>}              \* the database_name a caller attaches to
PageIds == {1, 2}                    \* the parent pages a caller may name
RecordValues == {1, 2}               \* the field values of a record

\* insert(record): a record the data model rejects, or one it accepts; the
\* hooks not_insert_when and define_page_content are functions of the record
Invalid == [valid |-> FALSE, value |-> None, skip |-> FALSE, children |-> "empty"]
Records ==
    {Invalid} \cup
    [valid : {TRUE}, value : RecordValues, skip : BOOLEAN, children : {"empty", "blocks"}]

\* the databases the remote may hold at the start: for the title <<1>> under
\* page 1, one that passes the three tests of the resolver and one that fails
\* each of them (archived, longer title, not under a page)
DatabaseObjects ==
    {[title |-> <<1>>, parent |-> [type |-> "page_id", page_id |-> 1], archived |-> FALSE],
     [title |-> <<1>>, parent |-> [type |-> "page_id", page_id |-> 1], archived |-> TRUE],
     [title |-> <<1, 2>>, parent |-> [type |-> "page_id", page_id |-> 1], archived |-> FALSE],
     [title |-> <<1>>, parent |-> [type |-> "workspace", page_id |-> None], archived |-> FALSE]}

\* the operations the pages endpoint of NotionClient defines
PagesEndpointOps == {"create", "retrieve", "update_properties"}

\* the entries of `trace` that are calls to the remote service
RemoteOps ==
    {"search", "databases.create", "databases.query",
     "pages.create", "pages.trash", "blocks.append_children"}

\* the injected failure of one operation: its at-th remote call fails,
\* "request": the service (or the transport) refuses, nothing is changed;
\* "response": the service did it, the answer does not validate.
FailChoices ==
    {[at |-> 0, kind |-> "none"]} \cup
    [at : 1..MaxFailAt, kind : {"request", "response"}]

VARIABLES
    databases,            \* remote: Seq of DatabaseObjects, id = index
    pages,                \* remote: Seq of [db, in_trash, content], id = index
    attached_database,    \* self.attached_database (an id) or None
    database_properties,  \* self.database_properties: "None" or "defined"
    trace,                \* the hooks and remote calls of the last operation
    last,                 \* the last operation, its arguments and its outcome
    created,              \* history: per (title, page) the databases attach has created
    resolvers             \* SpecRace: the attach calls in progress in other linkers

vars == <<databases, pages, attached_database, database_properties, trace, last, created,
          resolvers>>

\* an entry of `trace`: the hook or remote call, the identity it is about, what
\* it was given or answered (properties, number of rows), and how it ended
Call(name, id, arg, res) == [name |-> name, id |-> id, arg |-> arg, res |-> res]

RemoteCalls(tr) == SelectSeq(tr, LAMBDA c : c.name \in RemoteOps)

CallsOf(tr, name) == SelectSeq(tr, LAMBDA c : c.name = name)

\* the outcome of the remote call that is about to be made, the (n+1)-th
Injected(tr, fail) ==
    IF fail.at = Len(RemoteCalls(tr)) + 1 THEN fail.kind ELSE "none"

\* BaseEndpoint: the exception a failed endpoint call leaves with
FailureOutcome(kind) ==
    IF kind = "response" THEN "InvalidResponseError" ELSE "RemoteError"

FailureRes(kind) ==
    IF kind = "response" THEN "invalid_response" ELSE "error"

\* ------------------------------------------------------------- hooks
\* define_emoji_icon / define_external_icon: str | None
NoIcon == [defined |-> FALSE, value |-> <<>>]
EmojiHooks == {NoIcon, [defined |-> TRUE, value |-> <<9>>], [defined |-> TRUE, value |-> <<9, 9>>]}
ExternalHooks == {NoIcon, [defined |-> TRUE, value |-> <<7>>]}

\* the icon hooks of a specialization: each of the two is overridden or not
IconHooks == [emoji : EmojiHooks, external : ExternalHooks]

\* Python truthiness of a str | None
Truthy(s) == s.defined /\ Len(s.value) > 0

\* ------------------------------------------------------------- properties
is_attached == attached_database # None

attached_database_id == attached_database

\* ------------------------------------------------------------- the resolver
\* the service's title search: query is contained in the title
IsSubstring(q, t) ==
    \E i \in 0..(Len(t) - Len(q)) : SubSeq(t, i + 1, i + Len(q)) = q

\* search(query, filter_value="database"): the ids of the result, in order
SearchResults(dbs, query) ==
    SelectSeq([i \in 1..Len(dbs) |-> i], LAMBDA i : IsSubstring(query, dbs[i].title))

\* the tests with the parent test turned round: a database under the named
\* page is the one that is skipped
Matches_ParentTestInverted(database, database_name, parent_page_id) ==
    /\ ~database.archived
    /\ database.title = database_name
    /\ ~(/\ database.parent.type = "page_id"
         /\ parent_page_id = database.parent.page_id)

\* the three `continue` tests of the loop over search_results.results
Matches(database, database_name, parent_page_id) ==
    /\ ~database.archived
    /\ database.title = database_name
    /\ ~(/\ database.parent.type = "page_id"
         /\ parent_page_id # database.parent.page_id)

FindExistedByName(dbs, database_name, parent_page_id) ==
    SelectSeq(SearchResults(dbs, database_name),
              LAMBDA i : Matches(dbs[i], database_name, parent_page_id))

\* _validate_emoji_icon: "raise", "icon" or "none"
ValidateEmojiIcon(emoji) ==
    IF emoji.defined /\ Len(emoji.value) # 1 THEN "raise"
    ELSE IF Truthy(emoji) THEN "icon" ELSE "none"

\* _validate_external_icon: "icon" or "none"
ValidateExternalIcon(external) ==
    IF Truthy(external) THEN "icon" ELSE "none"

\* what an operation hands back to its action
Outcome(dbs, pgs, att, tr, outcome, ret) ==
    [databases |-> dbs, pages |-> pgs, attached |-> att,
     trace |-> tr, outcome |-> outcome, ret |-> ret]

\* databases.create whose result is kept although its answer did not validate
CreateDatabaseCall_KeepsUnvalidated(dbs, database_name, parent_page_id, tr, fail) ==
    LET kind == Injected(tr, fail)
        new == [title |-> database_name,
                parent |-> [type |-> "page_id", page_id |-> parent_page_id],
                archived |-> FALSE]
        id == Len(dbs) + 1
    IN  IF kind = "request"
        THEN Outcome(dbs, pages, None,
                     Append(tr, Call("databases.create", None, None, FailureRes(kind))),
                     FailureOutcome(kind), None)
        ELSE IF kind = "response"
        THEN Outcome(Append(dbs, new), pages, id,
                     Append(tr, Call("databases.create", id, None, FailureRes(kind))),
                     FailureOutcome(kind), None)
        ELSE Outcome(Append(dbs, new), pages, id,
                     Append(tr, Call("databases.create", id, None, "ok")),
                     "ok", id)

\* _create_database, from the icon on (the schema is present)
CreateDatabaseCall(dbs, database_name, parent_page_id, tr, fail) ==
    LET kind == Injected(tr, fail)
        new == [title |-> database_name,
                parent |-> [type |-> "page_id", page_id |-> parent_page_id],
                archived |-> FALSE]
        id == Len(dbs) + 1
    IN  IF kind = "request"
        THEN Outcome(dbs, pages, None,
                     Append(tr, Call("databases.create", None, None, FailureRes(kind))),
                     FailureOutcome(kind), None)
        ELSE IF kind = "response"
        THEN Outcome(Append(dbs, new), pages, None,
                     Append(tr, Call("databases.create", id, None, FailureRes(kind))),
                     FailureOutcome(kind), None)
        ELSE Outcome(Append(dbs, new), pages, id,
                     Append(tr, Call("databases.create", id, None, "ok")),
                     "ok", id)

CreateDatabase(dbs, database_name, parent_page_id, emoji, external, tr, fail) ==
    IF database_properties = "None"
    THEN Outcome(dbs, pages, None, tr, "UnsupportedAction", None)
    ELSE LET e == ValidateEmojiIcon(emoji)
             tr1 == Append(tr, Call("_validate_emoji_icon", None, None, e))
         IN  IF e = "raise"
             THEN Outcome(dbs, pages, None, tr1, "EmojiIconError", None)
             ELSE LET tr2 == IF e = "icon" THEN tr1
                             ELSE Append(tr1, Call("_validate_external_icon", None, None,
                                                   ValidateExternalIcon(external)))
                  IN  CreateDatabaseCall(dbs, database_name, parent_page_id, tr2, fail)

\* attach taking the first candidate when it finds several
AttachResolve_TakesFirst(dbs, database_name, parent_page_id, emoji, external, fail) ==
    LET kind == Injected(<<>>, fail)
        tr == <<Call("search", None, None, IF kind = "none" THEN "ok" ELSE FailureRes(kind))>>
        existed_databases == FindExistedByName(dbs, database_name, parent_page_id)
    IN  IF kind # "none"
        THEN Outcome(dbs, pages, None, tr, FailureOutcome(kind), None)
        ELSE IF Len(existed_databases) = 0
        THEN CreateDatabase(dbs, database_name, parent_page_id, emoji, external, tr, fail)
        ELSE Outcome(dbs, pages, existed_databases[1], tr, "ok", existed_databases[1])

\* attach that resolves the icon before it searches
AttachResolve_ResolvesIconFirst(dbs, database_name, parent_page_id, emoji, external, fail) ==
    LET kind == Injected(<<>>, fail)
        e == ValidateEmojiIcon(emoji)
        tr == <<Call("search", None, None, IF kind = "none" THEN "ok" ELSE FailureRes(kind))>>
        existed_databases == FindExistedByName(dbs, database_name, parent_page_id)
    IN  IF e = "raise"
        THEN Outcome(dbs, pages, None, <<Call("_validate_emoji_icon", None, None, e)>>,
                     "EmojiIconError", None)
        ELSE IF kind # "none"
        THEN Outcome(dbs, pages, None, tr, FailureOutcome(kind), None)
        ELSE IF Len(existed_databases) > 1
        THEN Outcome(dbs, pages, None, tr, "AmbiguousMatch", None)
        ELSE IF Len(existed_databases) = 0
        THEN CreateDatabase(dbs, database_name, parent_page_id, emoji, external, tr, fail)
        ELSE Outcome(dbs, pages, existed_databases[1], tr, "ok", existed_databases[1])

\* attach, after the is_attached test
AttachResolve(dbs, database_name, parent_page_id, emoji, external, fail) ==
    LET kind == Injected(<<>>, fail)
        tr == <<Call("search", None, None, IF kind = "none" THEN "ok" ELSE FailureRes(kind))>>
        existed_databases == FindExistedByName(dbs, database_name, parent_page_id)
    IN  IF kind # "none"
        THEN Outcome(dbs, pages, None, tr, FailureOutcome(kind), None)
        ELSE IF Len(existed_databases) > 1
        THEN Outcome(dbs, pages, None, tr, "AmbiguousMatch", None)
        ELSE IF Len(existed_databases) = 0
        THEN CreateDatabase(dbs, database_name, parent_page_id, emoji, external, tr, fail)
        ELSE Outcome(dbs, pages, existed_databases[1], tr, "ok", existed_databases[1])

\* attach without its is_attached test
AttachResult_NoAttachedTest(database_name, parent_page_id, emoji, external, fail) ==
    AttachResolve(databases, database_name, parent_page_id, emoji, external, fail)

AttachResult(database_name, parent_page_id, emoji, external, fail) ==
    IF is_attached
    THEN Outcome(databases, pages, attached_database, <<>>, "AlreadyAttached", None)
    ELSE AttachResolve(databases, database_name, parent_page_id, emoji, external, fail)

\* ------------------------------------------------------------- empty
\* databases.query(database_id) without cursor: the first page of the rows
\* of the database that are not in the trash
RECURSIVE LiveRows(_, _, _)
LiveRows(pgs, db, i) ==
    IF i > Len(pgs) THEN <<>>
    ELSE IF pgs[i].db = db /\ ~pgs[i].in_trash
         THEN <<i>> \o LiveRows(pgs, db, i + 1)
         ELSE LiveRows(pgs, db, i + 1)

QueryDatabase(pgs, db, page_size) ==
    LET rows == LiveRows(pgs, db, 1)
    IN  SubSeq(rows, 1, IF Len(rows) < page_size THEN Len(rows) ELSE page_size)

\* self.notion_client.pages.trash(page_id=row.id) for one row
TrashPage(pgs, att, tr, row, fail) ==
    IF "trash" \notin PagesEndpointOps
    THEN Outcome(databases, pgs, att, tr, "AttributeError", None)
    ELSE LET kind == Injected(tr, fail)
             trashed == [pgs EXCEPT ![row].in_trash = TRUE]
         IN  IF kind = "request"
             THEN Outcome(databases, pgs, att,
                          Append(tr, Call("pages.trash", row, None, FailureRes(kind))),
                          FailureOutcome(kind), None)
             ELSE IF kind = "response"
             THEN Outcome(databases, trashed, att,
                          Append(tr, Call("pages.trash", row, None, FailureRes(kind))),
                          FailureOutcome(kind), None)
             ELSE Outcome(databases, trashed, att,
                          Append(tr, Call("pages.trash", row, None, "ok")), "ok", None)

\* for i, row in enumerate(rows.results): ... trash(row.id)
RECURSIVE TrashRows(_, _, _, _, _)
TrashRows(pgs, att, tr, rows, fail) ==
    IF rows = <<>>
    THEN Outcome(databases, pgs, att, tr, "ok", None)
    ELSE LET r == TrashPage(pgs, att, tr, Head(rows), fail)
         IN  IF r.outcome # "ok" THEN r
             ELSE TrashRows(r.pages, att, r.trace, Tail(rows), fail)

\* while not is_empty: query, then trash every row of the answer
RECURSIVE EmptyLoop(_, _, _, _, _)
EmptyLoop(pgs, att, tr, page_size, fail) ==
    LET kind == Injected(tr, fail)
        rows == QueryDatabase(pgs, att, page_size)
    IN  IF kind # "none"
        THEN Outcome(databases, pgs, att,
                     Append(tr, Call("databases.query", att, None, FailureRes(kind))),
                     FailureOutcome(kind), None)
        ELSE LET r == TrashRows(pgs, att,
                                Append(tr, Call("databases.query", att, Len(rows), "ok")),
                                rows, fail)
             IN  IF r.outcome # "ok" \/ Len(rows) = 0 THEN r
                 ELSE EmptyLoop(r.pages, att, r.trace, page_size, fail)

EmptyResult(page_size, fail) ==
    IF ~is_attached
    THEN Outcome(databases, pages, attached_database, <<>>, "NotAttached", None)
    ELSE EmptyLoop(pages, attached_database_id, <<>>, page_size, fail)

\* ------------------------------------------------------------- insert
\* _data_to_properties(data=validated_record): supplied by the specialization
DataToProperties(record) == record.value + 10

\* append_children whose failure is swallowed: insert returns the row
AppendChildren_SwallowsFailure(pgs, att, tr, page, fail) ==
    LET kind == Injected(tr, fail)
        appended == [pgs EXCEPT ![page].content = TRUE]
    IN  IF kind = "request"
        THEN Outcome(databases, pgs, att,
                     Append(tr, Call("blocks.append_children", page, None, FailureRes(kind))),
                     "ok", page)
        ELSE Outcome(databases, appended, att,
                     Append(tr, Call("blocks.append_children", page, None,
                                     IF kind = "none" THEN "ok" ELSE FailureRes(kind))),
                     "ok", page)

\* blocks.append_children(block_id=str(page.id), children=children)
AppendChildren(pgs, att, tr, page, fail) ==
    LET kind == Injected(tr, fail)
        appended == [pgs EXCEPT ![page].content = TRUE]
    IN  IF kind = "request"
        THEN Outcome(databases, pgs, att,
                     Append(tr, Call("blocks.append_children", page, None, FailureRes(kind))),
                     FailureOutcome(kind), None)
        ELSE IF kind = "response"
        THEN Outcome(databases, appended, att,
                     Append(tr, Call("blocks.append_children", page, None, FailureRes(kind))),
                     FailureOutcome(kind), None)
        ELSE Outcome(databases, appended, att,
                     Append(tr, Call("blocks.append_children", page, None, "ok")), "ok", page)

\* insert that goes on to the content after a pages.create that failed
InsertCreate_GoesOnAfterFailedCreate(pgs, att, tr, record, fail) ==
    LET tr1 == Append(tr, Call("_data_to_properties", None, None, "ok"))
        kind == Injected(tr1, fail)
        page == Len(pgs) + 1
        props == DataToProperties(record)
        new == [db |-> att, in_trash |-> FALSE, content |-> FALSE]
        added == IF kind = "request" THEN pgs ELSE Append(pgs, new)
        tr2 == Append(Append(tr1, Call("pages.create", page, props,
                                       IF kind = "none" THEN "ok" ELSE FailureRes(kind))),
                      Call("define_page_content", None, None, record.children))
    IN  IF kind = "none"
        THEN IF record.children = "blocks"
             THEN AppendChildren(added, att, tr2, page, fail)
             ELSE Outcome(databases, added, att, tr2, "ok", page)
        ELSE Outcome(databases, added, att,
                     IF record.children = "blocks"
                     THEN Append(tr2, Call("blocks.append_children", page, None, "error"))
                     ELSE tr2,
                     FailureOutcome(kind), None)

\* insert that appends whatever define_page_content gave, an empty list too
InsertCreate_AlwaysAppends(pgs, att, tr, record, fail) ==
    LET tr1 == Append(tr, Call("_data_to_properties", None, None, "ok"))
        kind == Injected(tr1, fail)
        page == Len(pgs) + 1
        props == DataToProperties(record)
        new == [db |-> att, in_trash |-> FALSE, content |-> FALSE]
        added == Append(pgs, new)
    IN  IF kind = "request"
        THEN Outcome(databases, pgs, att,
                     Append(tr1, Call("pages.create", None, props, FailureRes(kind))),
                     FailureOutcome(kind), None)
        ELSE IF kind = "response"
        THEN Outcome(databases, added, att,
                     Append(tr1, Call("pages.create", page, props, FailureRes(kind))),
                     FailureOutcome(kind), None)
        ELSE LET tr2 == Append(Append(tr1, Call("pages.create", page, props, "ok")),
                               Call("define_page_content", None, None, record.children))
             IN  AppendChildren(added, att, tr2, page, fail)

\* insert from pages.create on: the record is valid and not skipped
InsertCreate(pgs, att, tr, record, fail) ==
    LET tr1 == Append(tr, Call("_data_to_properties", None, None, "ok"))
        kind == Injected(tr1, fail)
        page == Len(pgs) + 1
        props == DataToProperties(record)
        new == [db |-> att, in_trash |-> FALSE, content |-> FALSE]
        added == Append(pgs, new)
    IN  IF kind = "request"
        THEN Outcome(databases, pgs, att,
                     Append(tr1, Call("pages.create", None, props, FailureRes(kind))),
                     FailureOutcome(kind), None)
        ELSE IF kind = "response"
        THEN Outcome(databases, added, att,
                     Append(tr1, Call("pages.create", page, props, FailureRes(kind))),
                     FailureOutcome(kind), None)
        ELSE LET tr2 == Append(Append(tr1, Call("pages.create", page, props, "ok")),
                               Call("define_page_content", None, None, record.children))
             IN  IF record.children = "blocks"
                 THEN AppendChildren(added, att, tr2, page, fail)
                 ELSE Outcome(databases, added, att, tr2, "ok", page)

\* insert that reads the skip rule only after it has created the row
InsertValidated_SkipAfterCreate(pgs, att, record, fail) ==
    LET tr1 == <<Call("model_validate", None, None, IF record.valid THEN "ok" ELSE "raise")>>
        r == InsertCreate(pgs, att, tr1, record, fail)
        tr2 == Append(r.trace, Call("not_insert_when", None, None,
                                    IF record.skip THEN "true" ELSE "false"))
    IN  IF ~record.valid
        THEN Outcome(databases, pgs, att, tr1, "ValidationError", None)
        ELSE IF r.outcome = "ok" /\ record.skip
        THEN Outcome(databases, r.pages, att, tr2, "ok", None)
        ELSE r

\* insert that does not validate the record
InsertValidated_NoValidation(pgs, att, record, fail) ==
    LET tr2 == <<Call("not_insert_when", None, None,
                      IF record.skip THEN "true" ELSE "false")>>
    IN  IF record.skip
        THEN Outcome(databases, pgs, att, tr2, "ok", None)
        ELSE InsertCreate(pgs, att, tr2, record, fail)

\* insert from model_validate on: the linker is attached
InsertValidated(pgs, att, record, fail) ==
    LET tr1 == <<Call("model_validate", None, None, IF record.valid THEN "ok" ELSE "raise")>>
        tr2 == Append(tr1, Call("not_insert_when", None, None,
                                IF record.skip THEN "true" ELSE "false"))
    IN  IF ~record.valid
        THEN Outcome(databases, pgs, att, tr1, "ValidationError", None)
        ELSE IF record.skip
        THEN Outcome(databases, pgs, att, tr2, "ok", None)
        ELSE InsertCreate(pgs, att, tr2, record, fail)

\* insert without its is_attached test
InsertResult_NoAttachedTest(record, fail) ==
    InsertValidated(pages, attached_database_id, record, fail)

InsertResult(record, fail) ==
    IF ~is_attached
    THEN Outcome(databases, pages, attached_database, <<>>, "NotAttached", None)
    ELSE InsertValidated(pages, attached_database_id, record, fail)

\* ------------------------------------------------------------- detach
\* detach that treats a linker with nothing attached as an error
DetachResult_RaisesWhenUnattached ==
    IF is_attached
    THEN Outcome(databases, pages, None, <<>>, "ok", None)
    ELSE Outcome(databases, pages, attached_database, <<>>, "NotAttached", None)

DetachResult ==
    Outcome(databases, pages, IF is_attached THEN None ELSE attached_database,
            <<>>, "ok", None)

\* ------------------------------------------------------------- concurrent attach
\* two more linkers of the same specialization, each inside one attach call
Resolvers == {1, 2}

NoFailure == [at |-> 0, kind |-> "none"]

\* an attach call in progress: where it is, its arguments, what its search
\* found, and how it ended ("start": called, "searched": _find_existed_by_name
\* has returned, "done": attach has returned or raised)
NoResolver ==
    [pc |-> "none", title |-> <<>>, page |-> None, existed |-> <<>>,
     attached |-> None, outcome |-> "ok"]

\* the rest of attach that looks for the database once more before creating
ResolveSearched_SearchesAgain(dbs, existed_databases, database_name, parent_page_id) ==
    LET again == FindExistedByName(dbs, database_name, parent_page_id)
    IN  IF Len(again) > 1
        THEN Outcome(dbs, pages, None, <<>>, "AmbiguousMatch", None)
        ELSE IF Len(again) = 0
        THEN CreateDatabase(dbs, database_name, parent_page_id, NoIcon, NoIcon, <<>>, NoFailure)
        ELSE Outcome(dbs, pages, again[1], <<>>, "ok", again[1])

\* the rest of attach, from the list the search gave: the remote is as it is
\* now, the list as it was when the search answered
ResolveSearched(dbs, existed_databases, database_name, parent_page_id) ==
    IF Len(existed_databases) > 1
    THEN Outcome(dbs, pages, None, <<>>, "AmbiguousMatch", None)
    ELSE IF Len(existed_databases) = 0
    THEN CreateDatabase(dbs, database_name, parent_page_id, NoIcon, NoIcon, <<>>, NoFailure)
    ELSE Outcome(dbs, pages, existed_databases[1], <<>>, "ok", existed_databases[1])

\* ------------------------------------------------------------- actions
\* the record of an operation: what was called, with what, on which state
\* (the attachment and the sizes of the remote before it), and how it ended
Last(op, title, page, emoji, record, page_size, r) ==
    [op |-> op, was |-> attached_database,
     title |-> title, page |-> page, emoji |-> emoji,
     record |-> record, page_size |-> page_size,
     ndbs |-> Len(databases), npages |-> Len(pages),
     outcome |-> r.outcome, ret |-> r.ret]

Pairs == AttachTitles \X PageIds

\* no call is in progress and no outcome is held: the caller may call
Idle ==
    [op |-> "idle", was |-> None, title |-> <<>>, page |-> None, emoji |-> NoIcon,
     record |-> Invalid, page_size |-> None, ndbs |-> 0, npages |-> 0,
     outcome |-> "ok", ret |-> None]

\* attach(database_name, parent_page_id)
Attach(database_name, parent_page_id, hooks, fail) ==
    LET r == AttachResult(database_name, parent_page_id, hooks.emoji, hooks.external, fail)
        pair == <<database_name, parent_page_id>>
    IN  /\ last = Idle
        /\ Len(r.databases) <= MaxDbs
        /\ databases' = r.databases
        /\ attached_database' = r.attached
        /\ trace' = r.trace
        /\ last' = Last("attach", database_name, parent_page_id, hooks.emoji, Invalid, None, r)
        /\ created' = IF Len(r.databases) > Len(databases)
                      THEN [created EXCEPT ![pair] = Append(@, Len(r.databases))]
                      ELSE created
        /\ UNCHANGED <<pages, database_properties, resolvers>>

\* detach()
Detach ==
    LET r == DetachResult
    IN  /\ last = Idle
        /\ attached_database' = r.attached
        /\ trace' = r.trace
        /\ last' = Last("detach", <<>>, None, NoIcon, Invalid, None, r)
        /\ UNCHANGED <<databases, pages, database_properties, created, resolvers>>

\* empty()
Empty(page_size, fail) ==
    LET r == EmptyResult(page_size, fail)
    IN  /\ last = Idle
        /\ pages' = r.pages
        /\ attached_database' = r.attached
        /\ trace' = r.trace
        /\ last' = Last("empty", <<>>, None, NoIcon, Invalid, page_size, r)
        /\ UNCHANGED <<databases, database_properties, created, resolvers>>

\* insert(record)
Insert(record, fail) ==
    LET r == InsertResult(record, fail)
    IN  /\ last = Idle
        /\ Len(r.pages) <= MaxPages \/ r.pages = pages
        /\ pages' = r.pages
        /\ attached_database' = r.attached
        /\ trace' = r.trace
        /\ last' = Last("insert", <<>>, None, NoIcon, record, None, r)
        /\ UNCHANGED <<databases, database_properties, created, resolvers>>

\* the call is over: the caller has its return value or its exception, and
\* what the next call sees is the linker and the remote service alone
Return ==
    /\ last # Idle
    /\ last' = Idle
    /\ trace' = <<>>
    /\ UNCHANGED <<databases, pages, attached_database, database_properties, created,
                   resolvers>>

\* resolver p: existed_databases = self._find_existed_by_name(...)
RaceSearch(p) ==
    /\ resolvers[p].pc = "start"
    /\ resolvers' = [resolvers EXCEPT
            ![p].pc = "searched",
            ![p].existed = FindExistedByName(databases, resolvers[p].title, resolvers[p].page)]
    /\ UNCHANGED <<databases, pages, attached_database, database_properties, trace, last,
                   created>>

\* resolver p: the rest of attach, with the create call when nothing was found
RaceResolve(p) ==
    LET me == resolvers[p]
        r == ResolveSearched(databases, me.existed, me.title, me.page)
    IN  /\ me.pc = "searched"
        /\ databases' = r.databases
        /\ resolvers' = [resolvers EXCEPT
                ![p].pc = "done", ![p].attached = r.attached, ![p].outcome = r.outcome]
        /\ created' = IF Len(r.databases) > Len(databases)
                      THEN [created EXCEPT ![<<me.title, me.page>>] = Append(@, Len(r.databases))]
                      ELSE created
        /\ UNCHANGED <<pages, attached_database, database_properties, trace, last>>

\* this linker's attach, once the attach calls of the others are over
RaceLater(database_name, parent_page_id) ==
    /\ \A p \in Resolvers : resolvers[p].pc = "done"
    /\ Attach(database_name, parent_page_id, [emoji |-> NoIcon, external |-> NoIcon], NoFailure)

NextRace ==
    \/ \E p \in Resolvers : RaceSearch(p)
    \/ \E p \in Resolvers : RaceResolve(p)
    \/ \E database_name \in AttachTitles, parent_page_id \in PageIds :
            RaceLater(database_name, parent_page_id)

Next ==
    \/ \E database_name \in AttachTitles, parent_page_id \in PageIds,
          hooks \in IconHooks, fail \in FailChoices :
            Attach(database_name, parent_page_id, hooks, fail)
    \/ Detach
    \/ \E page_size \in 1..MaxPageSize, fail \in FailChoices :
            Empty(page_size, fail)
    \/ \E record \in Records, fail \in FailChoices :
            Insert(record, fail)
    \/ Return

\* ------------------------------------------------------------- initial states
SeqsUpTo(S, n) == UNION {[1..k -> S] : k \in 0..n}

\* __init__: nothing attached, the schema hook evaluated once
InitThisLinker ==
    /\ attached_database = None
    /\ database_properties \in {"None", "defined"}
    /\ trace = <<>>
    /\ last = Idle
    /\ created = [pair \in Pairs |-> <<>>]

\* this linker alone: no other attach is in progress
InitLinker ==
    /\ InitThisLinker
    /\ resolvers = [p \in Resolvers |-> NoResolver]

\* any remote databases, no rows yet
Init ==
    /\ databases \in SeqsUpTo(DatabaseObjects, MaxInitDbs)
    /\ pages = <<>>
    /\ InitLinker

Spec == Init /\ [][Next]_vars

\* one database under page 1, holding rows, the first MaxTrashed at most in the trash
InitEmpty ==
    /\ databases = <<[title |-> <<1>>,
                      parent |-> [type |-> "page_id", page_id |-> 1],
                      archived |-> FALSE]>>
    /\ \E n \in 0..MaxRecords, t \in 0..MaxTrashed :
          pages = [i \in 1..n |-> [db |-> 1, in_trash |-> (i <= t), content |-> FALSE]]
    /\ InitLinker

SpecEmpty == InitEmpty /\ [][Next]_vars

\* two attach calls have been started in two other linkers; the remote holds
\* few enough databases for both to create one
InitRace ==
    /\ databases \in SeqsUpTo(DatabaseObjects, MaxDbs - 2)
    /\ pages = <<>>
    /\ InitThisLinker
    /\ resolvers \in [Resolvers -> [pc : {"start"}, title : AttachTitles, page : PageIds,
                                     existed : {<<>>}, attached : {None}, outcome : {"ok"}]]

SpecRace == InitRace /\ [][NextRace]_vars

\* ============================================================= claims
\* the databases the remote held when the last operation was called
PreDatabases == SubSeq(databases, 1, last.ndbs)

\* the live databases titled `title` whose parent is the page `page`
UnderPage(dbs, title, page) ==
    {i \in 1..Len(dbs) :
        /\ ~dbs[i].archived
        /\ dbs[i].title = title
        /\ dbs[i].parent.type = "page_id"
        /\ dbs[i].parent.page_id = page}

\* no remote call of the last operation failed
NoRemoteFailure ==
    \A i \in 1..Len(trace) : trace[i].name \in RemoteOps => trace[i].res = "ok"

Issued(name) == Len(CallsOf(trace, name))

\* C1: attach on a linker that is already attached fails with the
\* already-attached error, whatever the remote holds and whatever parent is
\* named; it makes no remote call and leaves the attachment as it was.
C1_AttachWhenAttachedFails ==
    (last.op = "attach" /\ last.was # None) =>
        /\ last.outcome = "AlreadyAttached"
        /\ trace = <<>>
        /\ attached_database = last.was
        /\ Len(databases) = last.ndbs

\* attached, then attach for a page under which the remote holds nothing
C1_Witness ==
    /\ last.op = "attach" /\ last.was # None
    /\ last.outcome = "AlreadyAttached"
    /\ UnderPage(databases, last.title, last.page) = {}
    /\ Len(databases) >= 2

\* C2 (as claimed): with exactly one live database titled T under page P, and
\* the search answering, attach(T, P) on an unattached linker returns it,
\* attaches to it and issues no create call.
C2_AttachReturnsTheOneUnderPage ==
    (/\ last.op = "attach" /\ last.was = None
     /\ NoRemoteFailure
     /\ Cardinality(UnderPage(PreDatabases, last.title, last.page)) = 1) =>
        /\ last.outcome = "ok"
        /\ last.ret \in UnderPage(PreDatabases, last.title, last.page)
        /\ attached_database = last.ret
        /\ Issued("databases.create") = 0
        /\ Len(databases) = last.ndbs

C5_SkippedInsertMakesNoCall ==
    /\ (/\ last.op = "insert" /\ last.was # None
        /\ last.record.valid /\ last.record.skip) =>
            /\ last.outcome = "ok"
            /\ last.ret = None
            /\ RemoteCalls(trace) = <<>>
            /\ Len(pages) = last.npages
    /\ (/\ last.op = "insert" /\ last.outcome = "ok"
        /\ Issued("pages.create") > 0) => last.ret # None

C5_Witness ==
    /\ last.op = "insert" /\ last.was # None
    /\ last.record.valid /\ last.record.skip
    /\ last.record.children = "blocks"
    /\ last.ret = None /\ last.outcome = "ok"

\* C6: an insert on an attached linker whose record the data model rejects
\* fails with the validation error at model_validate: the skip rule, the
\* mapper and the remote are not reached, and no row is created.
C6_InvalidRecordFailsFirst ==
    (/\ last.op = "insert" /\ last.was # None
     /\ ~last.record.valid) =>
        /\ last.outcome = "ValidationError"
        /\ trace = <<Call("model_validate", None, None, "raise")>>
        /\ Len(pages) = last.npages

C6_Witness ==
    /\ last.op = "insert" /\ last.was # None
    /\ ~last.record.valid
    /\ last.outcome = "ValidationError"

\* the rows the last operation moved to the trash
TrashedByLast ==
    {trace[i].id : i \in {j \in 1..Len(trace) :
                            trace[j].name = "pages.trash" /\ trace[j].res # "error"}}

\* the rows of the attached database that were not in the trash when the last
\* operation was called, in the order a query returns them
PreLiveRows ==
    SelectSeq([i \in 1..Len(pages) |-> i],
              LAMBDA i : /\ pages[i].db = last.was
                         /\ i <= last.npages
                         /\ (~pages[i].in_trash \/ i \in TrashedByLast))

\* query, delete the rows of the answer in its order, query again, ...:
\* ceil(n / p) queries and n deletes for n rows
RECURSIVE PagedDeletes(_, _, _)
PagedDeletes(rows, p, db) ==
    IF rows = <<>> THEN <<>>
    ELSE LET k == IF Len(rows) < p THEN Len(rows) ELSE p
         IN  <<Call("databases.query", db, k, "ok")>>
             \o [i \in 1..k |-> Call("pages.trash", rows[i], None, "ok")]
             \o PagedDeletes(SubSeq(rows, k + 1, Len(rows)), p, db)

\* C7 (as claimed): empty() on an attached database holding n >= 1 rows, with
\* page size p and no failing remote call, issues ceil(n / p) queries and n
\* soft-deletes, the rows of each answer deleted in order before the next query.
C7_EmptyPagesThenDeletes ==
    (/\ last.op = "empty" /\ last.was # None
     /\ NoRemoteFailure
     /\ PreLiveRows # <<>>) =>
        RemoteCalls(trace) = PagedDeletes(PreLiveRows, last.page_size, last.was)

C9_DetachIsLocalAndIdempotent ==
    [][last'.op = "detach" =>
          /\ last'.outcome = "ok"
          /\ trace' = <<>>
          /\ attached_database' = None
          /\ UNCHANGED <<databases, pages, database_properties, created>>
          /\ (attached_database = None => UNCHANGED attached_database)]_vars

\* detach on a linker that has nothing attached
C9_Witness ==
    /\ last.op = "detach" /\ last.was = None
    /\ last.outcome = "ok"
    /\ attached_database = None
    /\ Len(databases) > 0

\* C10: insert and empty on a linker with nothing attached fail with the
\* not-attached error before anything else: no validation, no hook, no remote
\* call, and the remote and the linker stay as they were.
C10_UnattachedInsertEmptyFail ==
    [][(last'.op \in {"insert", "empty"} /\ attached_database = None) =>
          /\ last'.outcome = "NotAttached"
          /\ trace' = <<>>
          /\ UNCHANGED <<databases, pages, attached_database, database_properties, created>>]_vars

\* after an attach that created a database and a detach, an insert is refused
C10_Witness ==
    /\ last.op = "insert" /\ last.was = None
    /\ last.outcome = "NotAttached"
    /\ last.record.valid
    /\ \E pair \in Pairs : created[pair] # <<>>

\* a freshly constructed linker refuses empty
C10_WitnessEmpty ==
    /\ last.op = "empty" /\ last.was = None
    /\ last.outcome = "NotAttached"
    /\ \A pair \in Pairs : created[pair] = <<>>

\* the candidates the resolver kept for the last attach
Candidates == FindExistedByName(PreDatabases, last.title, last.page)

\* C11 (as claimed): a linker without a property schema attaches whenever
\* exactly one live database titled T is under the page P; it fails with the
\* configuration error only when none is, after the search, with no create
\* call and the linker left unattached.
C11_NoSchemaAttachesToTheOne ==
    (/\ last.op = "attach" /\ last.was = None
     /\ database_properties = "None"
     /\ NoRemoteFailure) =>
        /\ Cardinality(UnderPage(PreDatabases, last.title, last.page)) = 1 =>
              /\ last.outcome = "ok"
              /\ attached_database \in UnderPage(PreDatabases, last.title, last.page)
        /\ last.outcome = "UnsupportedAction" =>
              /\ UnderPage(PreDatabases, last.title, last.page) = {}
              /\ Issued("databases.create") = 0
              /\ Len(databases) = last.ndbs
              /\ attached_database = None

\* the schema test alone, with the candidates as the resolver keeps them: a
\* linker without schema attaches to a single candidate, and fails with the
\* configuration error exactly when there is none, after the search, with no
\* create call and unattached
NoSchemaFailsOnlyAtCreate ==
    (/\ last.op = "attach" /\ last.was = None
     /\ database_properties = "None"
     /\ NoRemoteFailure) =>
        /\ Len(Candidates) = 1 =>
              /\ last.outcome = "ok"
              /\ last.ret = Candidates[1]
              /\ attached_database = Candidates[1]
        /\ last.outcome = "UnsupportedAction" <=> Len(Candidates) = 0
        /\ last.outcome = "UnsupportedAction" =>
              /\ trace = <<Call("search", None, None, "ok")>>
              /\ Issued("databases.create") = 0
              /\ Len(databases) = last.ndbs
              /\ attached_database = None
              /\ last.ret = None

\* C12 (as claimed): every candidate the resolver keeps for (title, page) is a
\* live database titled `title` whose parent is the page `page`; a database
\* of that title under the workspace or a block is discarded.
C12_CandidatesAreUnderThePage ==
    (/\ last.op = "attach" /\ last.was = None
     /\ \E i \in 1..Len(trace) : trace[i].name = "search" /\ trace[i].res = "ok") =>
        \A i \in 1..Len(Candidates) :
            Candidates[i] \in UnderPage(PreDatabases, last.title, last.page)

\* C13: the linker starts unattached, and its attachment changes only by an
\* attach that succeeds (from unattached to the database it returns) or by a
\* detach (to unattached): insert, empty and every attach that fails leave it
\* as it was.
C13_AttachmentChangesOnlyByAttachDetach ==
    /\ attached_database = None
    /\ [][/\ attached_database' # attached_database =>
                \/ /\ last'.op = "attach" /\ last'.outcome = "ok"
                   /\ attached_database = None
                   /\ attached_database' # None
                   /\ attached_database' = last'.ret
                \/ /\ last'.op = "detach"
                   /\ attached_database' = None
          /\ (last'.op = "attach" /\ last'.outcome = "ok") =>
                attached_database' # None
          /\ (last'.op = "attach" /\ last'.outcome # "ok") =>
                /\ last'.outcome \in {"AlreadyAttached", "AmbiguousMatch", "UnsupportedAction",
                                      "EmojiIconError", "RemoteError", "InvalidResponseError"}
                /\ attached_database' = attached_database]_vars

\* an attach that failed after its create call had made the database
C13_Witness ==
    /\ last.op = "attach" /\ last.was = None
    /\ last.outcome = "InvalidResponseError"
    /\ Len(databases) = last.ndbs + 1
    /\ attached_database = None

\* the emoji hook of the last attach returns a value that is not one character
BrokenEmoji == last.emoji.defined /\ Len(last.emoji.value) # 1

\* the position in `trace` of the first entry named `name`, 0 when there is none
FirstAt(name) ==
    IF Issued(name) = 0 THEN 0
    ELSE CHOOSE i \in 1..Len(trace) :
            trace[i].name = name /\ \A j \in 1..(i - 1) : trace[j].name # name

\* C14: the icon is resolved only on the create path, the emoji hook first
\* and the external hook only when the emoji hook gave no icon.  A linker
\* whose emoji hook is broken attaches to a database that is there; the
\* validation error is raised only after a search that found nothing, by a
\* linker that has a schema, and then no create call is issued.
C14_IconResolvedLazily ==
    /\ (last.op = "attach" /\ last.was = None) =>
          /\ (Issued("_validate_emoji_icon") > 0 \/ Issued("_validate_external_icon") > 0) =>
                /\ trace[1] = Call("search", None, None, "ok")
                /\ Len(Candidates) = 0
                /\ database_properties = "defined"
                /\ FirstAt("_validate_emoji_icon") = 2
                /\ Issued("_validate_emoji_icon") = 1
          /\ Issued("_validate_external_icon") > 0 =>
                /\ FirstAt("_validate_external_icon") = 3
                /\ Issued("_validate_external_icon") = 1
                /\ trace[2].res = "none"
          /\ Issued("databases.create") > 0 =>
                /\ Issued("_validate_emoji_icon") = 1
                /\ FirstAt("databases.create") = Len(trace)
                /\ trace[Len(trace) - 1].res = "icon" \/ Issued("_validate_external_icon") = 1
    /\ (last.op = "attach" /\ last.was = None /\ BrokenEmoji) =>
          /\ (NoRemoteFailure /\ Len(Candidates) = 1) =>
                /\ last.outcome = "ok"
                /\ attached_database = Candidates[1]
                /\ trace = <<Call("search", None, None, "ok")>>
          /\ last.outcome = "EmojiIconError" =>
                /\ trace = <<Call("search", None, None, "ok"),
                             Call("_validate_emoji_icon", None, None, "raise")>>
                /\ Len(databases) = last.ndbs
                /\ attached_database = None
          /\ (NoRemoteFailure /\ Len(Candidates) = 0 /\ database_properties = "defined") =>
                last.outcome = "EmojiIconError"
    /\ (last.op = "attach" /\ last.outcome = "EmojiIconError") => BrokenEmoji

\* a linker with a broken emoji hook attached to the database that was there
C14_Witness ==
    /\ last.op = "attach" /\ last.was = None
    /\ BrokenEmoji
    /\ last.outcome = "ok"
    /\ attached_database \in UnderPage(PreDatabases, last.title, last.page)
    /\ database_properties = "defined"

\* the same linker where nothing was there: the error, and no create call
C14_WitnessRaised ==
    /\ last.op = "attach" /\ last.was = None
    /\ BrokenEmoji
    /\ last.outcome = "EmojiIconError"
    /\ Issued("databases.create") = 0

\* C15: a remote call that fails is the last thing its operation does: no
\* hook and no remote call follows it (no retry, no later query or delete, no
\* append after a failed create), and the operation ends with that failure;
\* an operation that ends with a remote failure has made the failed call last.
C15_FailFast ==
    /\ \A i \in 1..Len(trace) :
          (trace[i].name \in RemoteOps /\ trace[i].res # "ok") =>
              /\ i = Len(trace)
              /\ last.op \in {"attach", "empty", "insert"}
              /\ last.outcome = (IF trace[i].res = "error"
                                 THEN "RemoteError" ELSE "InvalidResponseError")
              /\ last.ret = None
    /\ last.outcome \in {"RemoteError", "InvalidResponseError"} =>
          /\ trace # <<>>
          /\ trace[Len(trace)].name \in RemoteOps
          /\ trace[Len(trace)].res # "ok"

\* an insert with content to append whose pages.create was refused
C15_Witness ==
    /\ last.op = "insert" /\ last.was # None
    /\ last.record.children = "blocks"
    /\ last.outcome = "RemoteError"
    /\ Issued("pages.create") = 1
    /\ Issued("blocks.append_children") = 0
    /\ Len(pages) = last.npages

\* an empty whose query was refused
C15_WitnessEmpty ==
    /\ last.op = "empty" /\ last.was # None
    /\ last.outcome = "RemoteError"
    /\ RemoteCalls(trace) = <<Call("databases.query", last.was, None, "error")>>

\* two attach calls for the same (title, page) that both found nothing
RacedOn(p, q) ==
    /\ p # q
    /\ resolvers[p].title = resolvers[q].title /\ resolvers[p].page = resolvers[q].page
    /\ resolvers[p].pc = "done" /\ resolvers[q].pc = "done"
    /\ resolvers[p].existed = <<>> /\ resolvers[q].existed = <<>>
    /\ database_properties = "defined"

\* C16: the search and the create of attach are two steps.  Two concurrent
\* attach calls for the same (title, page) that both found nothing both issue
\* their create call: each ends attached to a database of its own, two live
\* databases of that title are under that page, and an attach(title, page)
\* made afterwards fails as ambiguous.
C16_RaceCreatesTwo ==
    \A p, q \in Resolvers :
        RacedOn(p, q) =>
            LET title == resolvers[p].title
                page == resolvers[p].page
            IN  /\ resolvers[p].outcome = "ok" /\ resolvers[q].outcome = "ok"
                /\ resolvers[p].attached # resolvers[q].attached
                /\ {resolvers[p].attached, resolvers[q].attached}
                      \subseteq UnderPage(databases, title, page)
                /\ Len(created[<<title, page>>]) = 2
                /\ (last.op = "attach" /\ last.title = title /\ last.page = page) =>
                      /\ last.outcome = "AmbiguousMatch"
                      /\ attached_database = None

\* both saw nothing, both created, and the attach made afterwards failed
C16_Witness ==
    /\ RacedOn(1, 2)
    /\ Len(databases) = 3 /\ databases[1].archived
    /\ Cardinality(UnderPage(databases, resolvers[1].title, resolvers[1].page)) = 2
    /\ last.op = "attach" /\ last.title = resolvers[1].title /\ last.page = resolvers[1].page
    /\ last.outcome = "AmbiguousMatch"

\* C17 (as claimed): with no failing remote call, empty() on an attached
\* linker returns; its last query, and no earlier one, answered with zero
\* rows; every row of the attached database is in the trash, and none was
\* deleted twice.
C17_EmptyLeavesNothing ==
    (/\ last.op = "empty" /\ last.was # None
     /\ NoRemoteFailure) =>
        LET calls == RemoteCalls(trace)
        IN  /\ last.outcome = "ok"
            /\ calls # <<>>
            /\ \A i \in 1..Len(calls) :
                  calls[i].name = "databases.query" =>
                      (calls[i].arg = 0 <=> i = Len(calls))
            /\ LiveRows(pages, last.was, 1) = <<>>
            /\ PreLiveRows = SelectSeq([i \in 1..Len(pages) |-> i],
                                       LAMBDA i : i \in TrashedByLast)
            /\ Issued("pages.trash") = Len(PreLiveRows)

\* C18: an insert of a valid record that is not skipped, on an attached linker
\* and with no failing remote call, issues one pages.create, for a row of the
\* attached database with the mapper's properties of the record, then one
\* append_children for that row when define_page_content gave blocks and none
\* when it gave nothing, and returns the row.
C18_InsertCreatesThenAppends ==
    (/\ last.op = "insert" /\ last.was # None
     /\ last.record.valid /\ ~last.record.skip
     /\ NoRemoteFailure) =>
        LET row == last.npages + 1
        IN  /\ last.outcome = "ok"
            /\ last.ret = row
            /\ Len(pages) = row
            /\ pages[row].db = last.was
            /\ ~pages[row].in_trash
            /\ pages[row].content = (last.record.children = "blocks")
            /\ RemoteCalls(trace) =
                  <<Call("pages.create", row, DataToProperties(last.record), "ok")>>
                  \o (IF last.record.children = "blocks"
                      THEN <<Call("blocks.append_children", row, None, "ok")>>
                      ELSE <<>>)

\* an insert with content: two calls
C18_Witness ==
    /\ last.op = "insert" /\ last.was # None
    /\ last.record.valid /\ ~last.record.skip
    /\ last.record.children = "blocks"
    /\ last.record.value = 2
    /\ last.outcome = "ok"
    /\ Len(RemoteCalls(trace)) = 2
    /\ pages[last.ret].content

\* an insert without content: one call
C18_WitnessNoContent ==
    /\ last.op = "insert" /\ last.was # None
    /\ last.record.valid /\ ~last.record.skip
    /\ last.record.children = "empty"
    /\ last.outcome = "ok"
    /\ Len(RemoteCalls(trace)) = 1
    /\ ~pages[last.ret].content

\* C19 (as claimed): the delete that empty() issues for a queried row is an
\* operation of the pages endpoint: an empty() whose query answered with rows
\* does not end in an undefined-operation failure, it issues the delete and
\* the first row of the answer is in the trash.
C19_EmptyReachesTheDelete ==
    (/\ last.op = "empty" /\ last.was # None
     /\ \E i \in 1..Len(trace) :
           trace[i].name = "databases.query" /\ trace[i].res = "ok" /\ trace[i].arg > 0) =>
        /\ last.outcome # "AttributeError"
        /\ Issued("pages.trash") > 0
        /\ TrashedByLast # {} \/ last.outcome = "RemoteError"

====
